---- MODULE Spec2Model ----
(***************************************************************************)
(* A model of the two report-generator GUIs of this repository:            *)
(*   version 1: src/gui.py     (class YDataProfilingGUI)                   *)
(*   version 2: src/gui_v2.py  (class DataProfilerGUI)                     *)
(* The state is the tk variables of the application object, the widgets    *)
(* the generation threads write, the generation threads themselves (one    *)
(* record per thread, with its position and its locals), the files written *)
(* and the settings file.  The external profiling library, pandas and the  *)
(* file system are the environment: each call into them either returns or  *)
(* raises, chosen nondeterministically.                                    *)
(***************************************************************************)
EXTENDS Integers, Sequences, FiniteSets, TLC

(***************************************************************************)
(* Bounds of the model.                                                    *)
(***************************************************************************)
\* generation threads alive at the same time
MaxThreads == 2
\* user events (button presses, setting changes, file choices) in one run
MaxEvents == 3
\* of these, the uses of a settings widget (a click, a new value)
MaxEdits == 2
\* rows of every data file
FileRows == 3

(***************************************************************************)
(* File names.  A name is a sequence of one-character strings, so that the *)
(* suffix and its lower-casing are computed as pathlib and str.lower do.   *)
(***************************************************************************)
NoPath == << >>
DataCsv == <<"d", ".", "c", "s", "v">>
DataCsvUpper == <<"d", ".", "C", "S", "V">>
DataXlsx == <<"d", ".", "x", "l", "s", "x">>
DataXls == <<"d", ".", "x", "l", "s">>
DataJson == <<"d", ".", "j", "s", "o", "n">>
DataParquet == <<"d", ".", "p", "a", "r", "q", "u", "e", "t">>
DataTsvUpper == <<"d", ".", "T", "s", "v">>
DataTxt == <<"d", ".", "t", "x", "t">>
DataXyz == <<"d", ".", "x", "y", "z">>
DataNoExt == <<"d", "c", "s", "v">>
DataHidden == <<".", "c", "s", "v">>
DataDotEnd == <<"c", "s", "v", ".">>
GoneCsv == <<"g", ".", "c", "s", "v">>

\* every file name the dispatch of load_data is examined on
AllPaths ==
    {DataCsv, DataCsvUpper, DataXlsx, DataXls, DataJson, DataParquet,
     DataTsvUpper, DataTxt, DataXyz, DataNoExt, DataHidden, DataDotEnd, GoneCsv}
\* the files the file dialog offers (they exist)
BrowsePaths == {DataCsv, DataTsvUpper, DataXyz}
\* what the user types into the input entry: nothing, or a file that is not there
TypedPaths == {NoPath, GoneCsv}
\* the files on disk
ExistingFiles == AllPaths \ {GoneCsv}

LowerChar(c) ==
    CASE c = "C" -> "c"
      [] c = "S" -> "s"
      [] c = "V" -> "v"
      [] c = "T" -> "t"
      [] OTHER -> c

\* str.lower()
lower(s) == [i \in DOMAIN s |-> LowerChar(s[i])]

\* str.rfind('.'), 1-based, 0 when there is none
LastDot(name) ==
    LET dots == {i \in DOMAIN name : name[i] = "."}
    IN  IF dots = {} THEN 0 ELSE CHOOSE i \in dots : \A j \in dots : j <= i

\* pathlib.PurePath.suffix: the last dot-part of the name, when the dot is
\* neither the first nor the last character
suffix(name) ==
    LET i == LastDot(name)
    IN  IF 1 < i /\ i < Len(name) THEN SubSeq(name, i, Len(name)) ELSE << >>

\* Path(file_path).suffix.lower()
file_ext_nolower(file_path) == suffix(file_path)
file_ext(file_path) == lower(suffix(file_path))

\* pathlib.PurePath.stem
stem(name) ==
    IF suffix(name) = << >> THEN name ELSE SubSeq(name, 1, LastDot(name) - 1)

\* the output names; the parts after the stem are kept whole
ChosenOutput == <<"chosen", ".html">>

Min(a, b) == IF a <= b THEN a ELSE b

(***************************************************************************)
(* JSON values (json.dump / json.load) and the tk variables.               *)
(***************************************************************************)
JStr(s) == [t |-> "string", v |-> s]
JBool(b) == [t |-> "bool", v |-> b]
JInt(n) == [t |-> "int", v |-> n]
JObj(o) == [t |-> "object", v |-> o]
JScalarTypes == {"string", "bool", "int"}

\* dict.get(key, default) on a loaded JSON object
DictGet(d, key, default) == IF key \in DOMAIN d THEN d[key] ELSE default

\* tk.BooleanVar.set / tk.IntVar.set / tk.StringVar.set of a loaded value,
\* read back with get(): getboolean of a bool or of 0/1, getint, str
TkBool(j) ==
    CASE j.t = "bool" -> j.v
      [] j.t = "int" -> (j.v # 0)
      [] OTHER -> FALSE
\* an IntVar that is not given the loaded value
TkInt_lost(j) == 0
TkInt(j) ==
    CASE j.t = "int" -> j.v
      [] j.t = "bool" -> (IF j.v THEN 1 ELSE 0)
      [] OTHER -> 0
TkStr(j) ==
    CASE j.t = "string" -> j.v
      [] j.t = "bool" -> (IF j.v THEN "True" ELSE "False")
      [] OTHER -> "0"

(***************************************************************************)
(* The settings: the tk variables of the application object.               *)
(***************************************************************************)
Titles == {"Data Analysis Report", "Advanced Data Analysis Report", "T"}
Descriptions == {"", "D"}
Themes == {"default", "dark", "orange", "united"}
ColorSchemes == {"blue", "red"}
OutputFormats == {"html", "json"}
HandleMissing == {"skip", "show", "interpolate"}
SampleSizes == {0, 2, 1000}
Timeouts == {60, 600}
MemoryLimits == {512, 2048}

\* YDataProfilingGUI.__init__
V1Defaults ==
    [title_var |-> "Data Analysis Report",
     minimal_var |-> FALSE,
     explorative_var |-> TRUE,
     dark_mode_var |-> FALSE,
     orange_mode_var |-> FALSE,
     correlations_var |-> TRUE,
     missing_diagrams_var |-> TRUE,
     duplicates_var |-> TRUE,
     interactions_var |-> FALSE,
     samples_var |-> TRUE]

\* DataProfilerGUI.initialize_variables
V2Defaults ==
    [output_format |-> "html",
     title_var |-> "Advanced Data Analysis Report",
     minimal_var |-> FALSE,
     explorative_var |-> TRUE,
     dataset_description |-> "",
     theme_var |-> "default",
     color_scheme |-> "blue",
     correlations_var |-> TRUE,
     missing_diagrams_var |-> TRUE,
     duplicates_var |-> TRUE,
     interactions_var |-> FALSE,
     samples_var |-> TRUE,
     sample_size |-> 0,
     timeout_var |-> 600,
     memory_limit |-> 2048,
     auto_clean |-> FALSE,
     handle_missing |-> "skip",
     encoding_detect |-> TRUE,
     include_config |-> TRUE,
     compress_output |-> FALSE]

\* the check buttons of each version (Checkbutton(..., variable=var))
V1CheckButtons ==
    {"dark_mode_var", "orange_mode_var", "correlations_var", "missing_diagrams_var",
     "duplicates_var", "interactions_var", "samples_var"}
V2CheckButtons ==
    {"correlations_var", "missing_diagrams_var", "duplicates_var", "interactions_var",
     "samples_var", "encoding_detect", "auto_clean", "include_config", "compress_output"}

(***************************************************************************)
(* create_profile_config                                                   *)
(***************************************************************************)
Calculate(b) == JObj([calculate |-> b])
AdvancedKeys == {"correlations", "missing_diagrams", "duplicates", "interactions", "samples"}

\* a configuration whose report type follows each radio variable by itself
create_profile_config_v1_each(s) ==
    LET keys ==
            {"title"}
            \cup (IF s.minimal_var THEN {"minimal"} ELSE {})
            \cup (IF s.explorative_var THEN {"explorative"} ELSE {})
            \cup (IF s.dark_mode_var THEN {"dark_mode"} ELSE {})
            \cup (IF s.orange_mode_var THEN {"orange_mode"} ELSE {})
            \cup (IF ~s.minimal_var THEN AdvancedKeys ELSE {})
    IN  [k \in keys |->
            CASE k = "title" -> JStr(s.title_var)
              [] k = "correlations" -> Calculate(s.correlations_var)
              [] k = "missing_diagrams" -> Calculate(s.missing_diagrams_var)
              [] k = "duplicates" -> Calculate(s.duplicates_var)
              [] k = "interactions" -> Calculate(s.interactions_var)
              [] k = "samples" -> Calculate(s.samples_var)
              [] OTHER -> JBool(TRUE)]

\* YDataProfilingGUI.create_profile_config
create_profile_config_v1(s) ==
    LET keys ==
            {"title"}
            \cup (IF s.minimal_var THEN {"minimal"} ELSE {"explorative"})
            \cup (IF s.dark_mode_var THEN {"dark_mode"} ELSE {})
            \cup (IF s.orange_mode_var THEN {"orange_mode"} ELSE {})
            \cup (IF ~s.minimal_var THEN AdvancedKeys ELSE {})
    IN  [k \in keys |->
            CASE k = "title" -> JStr(s.title_var)
              [] k = "correlations" -> Calculate(s.correlations_var)
              [] k = "missing_diagrams" -> Calculate(s.missing_diagrams_var)
              [] k = "duplicates" -> Calculate(s.duplicates_var)
              [] k = "interactions" -> Calculate(s.interactions_var)
              [] k = "samples" -> Calculate(s.samples_var)
              [] OTHER -> JBool(TRUE)]

\* the sample entry of the v2 configuration (lines 1049-1051)
sample_keys_always(s) == {"sample"}
sample_keys(s) == IF s.sample_size > 0 THEN {"sample"} ELSE {}

\* a configuration that hands the memory limit to the library
create_profile_config_v2_memory(s) ==
    [k \in {"title", "minimal", "memory"} |->
        CASE k = "title" -> JStr(s.title_var)
          [] k = "minimal" -> JBool(s.minimal_var)
          [] OTHER -> JInt(s.memory_limit)]

\* DataProfilerGUI.create_profile_config
create_profile_config_v2(s) ==
    LET keys ==
            {"title", "dataset"}
            \cup (IF s.minimal_var THEN {"minimal"} ELSE {"explorative"})
            \cup (IF s.theme_var = "dark" THEN {"dark_mode"} ELSE {})
            \cup (IF s.theme_var = "orange" THEN {"orange_mode"} ELSE {})
            \cup (IF s.theme_var = "united" THEN {"theme"} ELSE {})
            \cup (IF ~s.minimal_var THEN AdvancedKeys ELSE {})
            \cup sample_keys(s)
    IN  [k \in keys |->
            CASE k = "title" -> JStr(s.title_var)
              [] k = "dataset" ->
                    JObj([description |-> s.dataset_description,
                          copyright_holder |-> "Data Profiling Studio",
                          copyright_year |-> "datetime.now().year"])
              [] k = "theme" -> JStr("united")
              [] k = "correlations" ->
                    JObj([calculate |-> s.correlations_var, threshold |-> "0.9"])
              [] k = "missing_diagrams" -> Calculate(s.missing_diagrams_var)
              [] k = "duplicates" -> Calculate(s.duplicates_var)
              [] k = "interactions" ->
                    JObj([calculate |-> s.interactions_var, threshold |-> "0.1"])
              [] k = "samples" ->
                    JObj([calculate |-> s.samples_var, head |-> 10, tail |-> 10])
              [] k = "sample" -> JObj([n |-> s.sample_size])
              [] OTHER -> JBool(TRUE)]

\* minimal_config of generate_report_thread (both versions)
minimal_config(s) ==
    [k \in {"title", "minimal"} |->
        IF k = "title" THEN JStr(s.title_var) ELSE JBool(TRUE)]

NoConfig == [k \in {} |-> JBool(FALSE)]

(***************************************************************************)
(* load_data.  A data frame is what the program did to get it: the reader  *)
(* chosen, the encoding that decoded the file, the rows read and the       *)
(* cleaning applied.  nrows = 0 stands for nrows=None.                     *)
(***************************************************************************)
NoDf ==
    [reader |-> "none", encoding |-> "none", rows |-> 0,
     dropna_cols |-> FALSE, interpolated |-> FALSE, dedup |-> FALSE]

AllEncodings == {"utf-8", "utf-8-sig", "latin-1", "cp1252", "iso-8859-1"}
\* what the environment decides about one read: whether the reader raises, and
\* which encodings decode the file (latin-1, cp1252 and iso-8859-1 decode any bytes)
ReadEnvs ==
    [read_ok : BOOLEAN,
     decodable : {AllEncodings, AllEncodings \ {"utf-8", "utf-8-sig"}}]

\* for encoding in encodings: try ... break / except UnicodeDecodeError: continue
FirstDecodable(encodings, decodable) ==
    LET hits == {i \in DOMAIN encodings : encodings[i] \in decodable}
    IN  IF hits = {} THEN "none"
        ELSE encodings[CHOOSE i \in hits : \A j \in hits : i <= j]

Raised == [ok |-> FALSE, df |-> NoDf]
Loaded(reader, encoding, rows) ==
    [ok |-> TRUE,
     df |-> [NoDf EXCEPT !.reader = reader, !.encoding = encoding, !.rows = rows]]

\* rows read by a reader given nrows
RowsRead(nrows) == IF nrows = 0 THEN FileRows ELSE Min(nrows, FileRows)

\* the reader of a CSV-like file with a list of encodings to try
ReadEncoded(reader, encodings, nrows, env) ==
    LET enc == FirstDecodable(encodings, env.decodable)
    IN  IF enc = "none" \/ ~env.read_ok THEN Raised
        ELSE Loaded(reader, enc, RowsRead(nrows))

ReadPlain(reader, nrows, env) ==
    IF ~env.read_ok THEN Raised ELSE Loaded(reader, "none", RowsRead(nrows))

\* the dispatch of YDataProfilingGUI.load_data on an extension
DispatchV1(ext, env) ==
    CASE ext = <<".", "c", "s", "v">> ->
            ReadEncoded("read_csv", <<"utf-8", "latin-1", "cp1252", "utf-8-sig">>, 0, env)
      [] ext \in {<<".", "x", "l", "s", "x">>, <<".", "x", "l", "s">>} ->
            ReadPlain("read_excel", 0, env)
      [] ext = <<".", "j", "s", "o", "n">> -> ReadPlain("read_json", 0, env)
      [] ext = <<".", "p", "a", "r", "q", "u", "e", "t">> -> ReadPlain("read_parquet", 0, env)
      [] OTHER -> Raised

\* YDataProfilingGUI.load_data
load_data_v1(file_path, env) == DispatchV1(file_ext(file_path), env)

\* DataProfilerGUI.clean_data
clean_data(s, df) ==
    [df EXCEPT !.dropna_cols = (s.handle_missing = "skip"),
               !.interpolated = (s.handle_missing = "interpolate"),
               !.dedup = s.duplicates_var]

\* the dispatch of DataProfilerGUI.load_data on an extension
DispatchV2(s, ext, nrows, env) ==
    CASE ext = <<".", "c", "s", "v">> ->
            ReadEncoded("read_csv",
                        IF s.encoding_detect
                        THEN <<"utf-8", "utf-8-sig", "latin-1", "cp1252", "iso-8859-1">>
                        ELSE <<"utf-8">>,
                        nrows, env)
      [] ext \in {<<".", "x", "l", "s", "x">>, <<".", "x", "l", "s">>} ->
            ReadPlain("read_excel", nrows, env)
      [] ext = <<".", "j", "s", "o", "n">> -> ReadPlain("read_json", nrows, env)
      [] ext = <<".", "p", "a", "r", "q", "u", "e", "t">> -> ReadPlain("read_parquet", nrows, env)
      [] ext \in {<<".", "t", "s", "v">>, <<".", "t", "x", "t">>} ->
            ReadEncoded("read_tsv", <<"utf-8", "utf-8-sig", "latin-1", "cp1252">>, nrows, env)
      [] OTHER -> Raised

\* DataProfilerGUI.load_data
load_data_v2(s, file_path, nrows, env) ==
    LET r == DispatchV2(s, file_ext(file_path), nrows, env)
    IN  IF r.ok /\ s.auto_clean /\ nrows = 0
        THEN [r EXCEPT !.df = clean_data(s, r.df)]
        ELSE r

(***************************************************************************)
(* The settings file: the dictionary written with json.dump, read back     *)
(* with json.load.                                                         *)
(***************************************************************************)
NoFile == [k \in {} |-> JBool(FALSE)]

\* a settings dictionary that groups the analysis flags in an object of their own
save_settings_dict_nested(s) ==
    [title |-> JStr(s.title_var),
     minimal |-> JBool(s.minimal_var),
     explorative |-> JBool(s.explorative_var),
     dark_mode |-> JBool(s.dark_mode_var),
     orange_mode |-> JBool(s.orange_mode_var),
     advanced |-> JObj([correlations |-> s.correlations_var,
                        missing_diagrams |-> s.missing_diagrams_var,
                        duplicates |-> s.duplicates_var,
                        interactions |-> s.interactions_var,
                        samples |-> s.samples_var])]

\* the settings dictionary of YDataProfilingGUI.save_settings
save_settings_dict(s) ==
    [title |-> JStr(s.title_var),
     minimal |-> JBool(s.minimal_var),
     explorative |-> JBool(s.explorative_var),
     dark_mode |-> JBool(s.dark_mode_var),
     orange_mode |-> JBool(s.orange_mode_var),
     correlations |-> JBool(s.correlations_var),
     missing_diagrams |-> JBool(s.missing_diagrams_var),
     duplicates |-> JBool(s.duplicates_var),
     interactions |-> JBool(s.interactions_var),
     samples |-> JBool(s.samples_var)]

\* applying the settings without the title
apply_settings_v1_notitle(d) ==
    [title_var |-> "Data Analysis Report",
     minimal_var |-> TkBool(DictGet(d, "minimal", JBool(FALSE))),
     explorative_var |-> TkBool(DictGet(d, "explorative", JBool(TRUE))),
     dark_mode_var |-> TkBool(DictGet(d, "dark_mode", JBool(FALSE))),
     orange_mode_var |-> TkBool(DictGet(d, "orange_mode", JBool(FALSE))),
     correlations_var |-> TkBool(DictGet(d, "correlations", JBool(TRUE))),
     missing_diagrams_var |-> TkBool(DictGet(d, "missing_diagrams", JBool(TRUE))),
     duplicates_var |-> TkBool(DictGet(d, "duplicates", JBool(TRUE))),
     interactions_var |-> TkBool(DictGet(d, "interactions", JBool(FALSE))),
     samples_var |-> TkBool(DictGet(d, "samples", JBool(TRUE)))]

\* "Apply settings" of YDataProfilingGUI.load_settings
apply_settings_v1(d) ==
    [title_var |-> TkStr(DictGet(d, "title", JStr("Data Analysis Report"))),
     minimal_var |-> TkBool(DictGet(d, "minimal", JBool(FALSE))),
     explorative_var |-> TkBool(DictGet(d, "explorative", JBool(TRUE))),
     dark_mode_var |-> TkBool(DictGet(d, "dark_mode", JBool(FALSE))),
     orange_mode_var |-> TkBool(DictGet(d, "orange_mode", JBool(FALSE))),
     correlations_var |-> TkBool(DictGet(d, "correlations", JBool(TRUE))),
     missing_diagrams_var |-> TkBool(DictGet(d, "missing_diagrams", JBool(TRUE))),
     duplicates_var |-> TkBool(DictGet(d, "duplicates", JBool(TRUE))),
     interactions_var |-> TkBool(DictGet(d, "interactions", JBool(FALSE))),
     samples_var |-> TkBool(DictGet(d, "samples", JBool(TRUE)))]

\* the config dictionary of DataProfilerGUI.save_configuration
save_configuration_dict(s) ==
    [title |-> JStr(s.title_var),
     description |-> JStr(s.dataset_description),
     analysis_type |-> JStr(IF s.minimal_var THEN "minimal" ELSE "comprehensive"),
     theme |-> JStr(s.theme_var),
     color_scheme |-> JStr(s.color_scheme),
     output_format |-> JStr(s.output_format),
     correlations |-> JBool(s.correlations_var),
     missing_diagrams |-> JBool(s.missing_diagrams_var),
     duplicates |-> JBool(s.duplicates_var),
     interactions |-> JBool(s.interactions_var),
     samples |-> JBool(s.samples_var),
     sample_size |-> JInt(s.sample_size),
     timeout |-> JInt(s.timeout_var),
     memory_limit |-> JInt(s.memory_limit),
     auto_clean |-> JBool(s.auto_clean),
     handle_missing |-> JStr(s.handle_missing),
     encoding_detect |-> JBool(s.encoding_detect),
     include_config |-> JBool(s.include_config),
     compress_output |-> JBool(s.compress_output)]

\* DataProfilerGUI.apply_configuration
apply_configuration(config) ==
    LET analysis_type == TkStr(DictGet(config, "analysis_type", JStr("comprehensive")))
    IN  [title_var |-> TkStr(DictGet(config, "title", JStr("Data Analysis Report"))),
         dataset_description |-> TkStr(DictGet(config, "description", JStr(""))),
         theme_var |-> TkStr(DictGet(config, "theme", JStr("default"))),
         color_scheme |-> TkStr(DictGet(config, "color_scheme", JStr("blue"))),
         output_format |-> TkStr(DictGet(config, "output_format", JStr("html"))),
         minimal_var |-> (analysis_type = "minimal"),
         explorative_var |-> ~(analysis_type = "minimal"),
         correlations_var |-> TkBool(DictGet(config, "correlations", JBool(TRUE))),
         missing_diagrams_var |-> TkBool(DictGet(config, "missing_diagrams", JBool(TRUE))),
         duplicates_var |-> TkBool(DictGet(config, "duplicates", JBool(TRUE))),
         interactions_var |-> TkBool(DictGet(config, "interactions", JBool(FALSE))),
         samples_var |-> TkBool(DictGet(config, "samples", JBool(TRUE))),
         sample_size |-> TkInt(DictGet(config, "sample_size", JInt(0))),
         timeout_var |-> TkInt(DictGet(config, "timeout", JInt(600))),
         memory_limit |-> TkInt(DictGet(config, "memory_limit", JInt(2048))),
         auto_clean |-> TkBool(DictGet(config, "auto_clean", JBool(FALSE))),
         handle_missing |-> TkStr(DictGet(config, "handle_missing", JStr("skip"))),
         encoding_detect |-> TkBool(DictGet(config, "encoding_detect", JBool(TRUE))),
         include_config |-> TkBool(DictGet(config, "include_config", JBool(TRUE))),
         compress_output |-> TkBool(DictGet(config, "compress_output", JBool(FALSE)))]

(***************************************************************************)
(* The state.                                                              *)
(***************************************************************************)
VARIABLES
    version,          \* 1: gui.py, 2: gui_v2.py
    YDATA_AVAILABLE,  \* set at import time
    has_sigalrm,      \* hasattr(signal, 'SIGALRM'): the platform
    settings,         \* the tk variables holding the settings
    widgets_bound,    \* the widgets still edit the variables the program reads
    input_file,
    output_file,
    gui,              \* progress bar and status labels
    threads,          \* the generation threads
    files,            \* the report, configuration and zip files written
    settings_file,    \* the content of the saved settings file
    saved_from,       \* the settings at the time settings_file was written
    events,           \* user events so far
    edits,            \* uses of a settings widget so far
    cancelled         \* history: the generations cancel_operation ran during

vars ==
    <<version, YDATA_AVAILABLE, has_sigalrm, settings, widgets_bound, input_file,
      output_file, gui, threads, files, settings_file, saved_from, events, edits,
      cancelled>>

ThreadIds == 1..MaxThreads

\* a thread slot with no thread in it, and the locals of generate_report_thread
IdleThread ==
    [pc |-> "idle", runner |-> "none", input_path |-> NoPath, output_path |-> NoPath,
     nrows |-> 0, df |-> NoDf, config |-> NoConfig, profile_config |-> NoConfig,
     attempts |-> 0, wrote |-> {}, outcome |-> "none", error |-> "none",
     error_detail |-> 0]

\* threading.Thread(target=self.generate_report_thread); thread.start()
StartThreadOnUi == [IdleThread EXCEPT !.pc = "validate", !.runner = "ui"]
StartThread == [IdleThread EXCEPT !.pc = "validate", !.runner = "thread"]

\* create_widgets (v1) / initialize_variables and create_bottom_panel (v2)
GuiV1Init ==
    [progress_running |-> FALSE, status_label |-> "San sang tao bao cao"]
GuiV2Init ==
    [progress_var |-> 0, current_step |-> "Ready",
     main_status_label |-> "Ready to analyze data"]

Init ==
    /\ version \in {1, 2}
    /\ YDATA_AVAILABLE \in BOOLEAN
    /\ has_sigalrm \in (IF version = 2 /\ YDATA_AVAILABLE THEN BOOLEAN ELSE {FALSE})
    /\ settings = (IF version = 1 THEN V1Defaults ELSE V2Defaults)
    /\ widgets_bound = TRUE
    /\ input_file = NoPath
    /\ output_file = NoPath
    /\ gui = (IF version = 1 THEN GuiV1Init ELSE GuiV2Init)
    /\ threads = [t \in ThreadIds |-> IdleThread]
    /\ files = {}
    /\ settings_file = NoFile
    /\ saved_from = settings
    /\ events = 0
    /\ edits = 0
    /\ cancelled = {}

Active(th) == th.pc \notin {"idle", "done"}
\* the Tk main loop is free to run a handler: no generation runs on it
UIIdle == \A t \in ThreadIds : ~(Active(threads[t]) /\ threads[t].runner = "ui")
UserEvent == UIIdle /\ events < MaxEvents
SettingEdit == UserEvent /\ edits < MaxEdits

(***************************************************************************)
(* generate_report_thread.  A thread is at one of these places:            *)
(*   validate   started, before the checks of the library and the paths    *)
(*   load       in load_data                                               *)
(*   configure  (v2) after load_data, building the configuration           *)
(*   profile    in ProfileReport(df, **config)                             *)
(*   fallback   in ProfileReport(df, **minimal_config)                     *)
(*   save       writing the report                                         *)
(*   finalize   (v2) writing the configuration file and the zip file       *)
(*   ask        in messagebox.askyesno                                     *)
(*   errdialog  in messagebox.showerror of the except block                *)
(*   done       returned, after the finally block                          *)
(* A step is the return of the blocking call the thread is in, with the    *)
(* code that follows it up to the next blocking call.  What the            *)
(* environment decides about the call is env.  The settings load_data      *)
(* reads (encoding_detect, auto_clean, handle_missing, duplicates_var) are *)
(* read at the return of the read.  In v2 the code between load_data and   *)
(* ProfileReport is a step of its own (configure), so that every value     *)
(* update_progress gives the progress bar after the checks is the value of *)
(* a state.  The status texts of v1 are written without their diacritics.  *)
(***************************************************************************)
DefaultEnv == [read_ok |-> TRUE, decodable |-> AllEncodings, call |-> "ok", io |-> "ok"]

EnvsAt(pc) ==
    CASE pc = "load" ->
            {[DefaultEnv EXCEPT !.read_ok = e.read_ok, !.decodable = e.decodable] :
                e \in ReadEnvs}
      [] pc \in {"profile", "fallback"} ->
            {[DefaultEnv EXCEPT !.call = c] : c \in {"ok", "error", "timeout"}}
      [] pc = "save" -> {[DefaultEnv EXCEPT !.io = c] : c \in {"ok", "error"}}
      [] pc = "finalize" ->
            {[DefaultEnv EXCEPT !.io = c] : c \in {"ok", "config_error", "zip_error"}}
      [] OTHER -> {DefaultEnv}

\* the locals of a thread that are dead once it handles an error or returns
DropLocals(th) ==
    [th EXCEPT !.input_path = NoPath, !.output_path = NoPath, !.nrows = 0, !.df = NoDf,
               !.config = NoConfig, !.profile_config = NoConfig]

\* except Exception as e (gui.py 386-390): log, status label, showerror
ExceptV1(th, g, fs, err) ==
    [th |-> [DropLocals(th) EXCEPT !.pc = "errdialog", !.outcome = "error", !.error = err],
     gui |-> [g EXCEPT !.status_label = "Co loi xay ra"],
     files |-> fs]

\* checks that look for the input file before they look at the output path
ValidateV1_exists_first(th, g, fs, inp, outp, lib) ==
    IF ~lib THEN ExceptV1(th, g, fs, "library not available")
    ELSE IF inp = NoPath THEN ExceptV1(th, g, fs, "no input")
    ELSE IF inp \notin ExistingFiles THEN ExceptV1(th, g, fs, "input does not exist")
    ELSE IF outp = NoPath THEN ExceptV1(th, g, fs, "no output")
    ELSE [th |-> [th EXCEPT !.pc = "load", !.input_path = inp, !.output_path = outp],
          gui |-> [g EXCEPT !.status_label = "Dang doc du lieu..."],
          files |-> fs]

\* gui.py 321-339: the checks, then the first status texts
ValidateV1(th, g, fs, inp, outp, lib) ==
    IF ~lib THEN ExceptV1(th, g, fs, "library not available")
    ELSE IF inp = NoPath THEN ExceptV1(th, g, fs, "no input")
    ELSE IF outp = NoPath THEN ExceptV1(th, g, fs, "no output")
    ELSE IF inp \notin ExistingFiles THEN ExceptV1(th, g, fs, "input does not exist")
    ELSE [th |-> [th EXCEPT !.pc = "load", !.input_path = inp, !.output_path = outp],
          gui |-> [g EXCEPT !.status_label = "Dang doc du lieu..."],
          files |-> fs]

\* gui.py 342-352: load_data returns or raises; then the configuration
LoadV1(th, g, fs, s, env) ==
    LET r == load_data_v1(th.input_path, env)
    IN  IF ~r.ok THEN ExceptV1(th, g, fs, "load_data")
        ELSE [th |-> [th EXCEPT !.pc = "profile", !.input_path = NoPath, !.df = r.df,
                                !.config = create_profile_config_v1(s),
                                !.profile_config = create_profile_config_v1(s)],
              gui |-> [g EXCEPT !.status_label = "Dang tao profile..."],
              files |-> fs]

\* gui.py 355-364: the first ProfileReport call; any exception leads to the retry
ProfileV1(th, g, fs, s, env) ==
    IF env.call = "ok"
    THEN [th |-> [th EXCEPT !.pc = "save", !.attempts = @ + 1, !.df = NoDf],
          gui |-> [g EXCEPT !.status_label = "Dang luu bao cao..."],
          files |-> fs]
    ELSE [th |-> [th EXCEPT !.pc = "fallback", !.attempts = @ + 1,
                            !.profile_config = minimal_config(s)],
          gui |-> g,
          files |-> fs]

\* a retry that is itself retried when it raises
FallbackV1_again(th, g, fs, env) ==
    IF env.call = "ok"
    THEN [th |-> [th EXCEPT !.pc = "save", !.attempts = @ + 1, !.df = NoDf],
          gui |-> [g EXCEPT !.status_label = "Dang luu bao cao..."],
          files |-> fs]
    ELSE [th |-> [th EXCEPT !.attempts = Min(@ + 1, 3)], gui |-> g, files |-> fs]

\* gui.py 362-364: the retry with minimal_config; an exception is not caught here
FallbackV1(th, g, fs, env) ==
    IF env.call = "ok"
    THEN [th |-> [th EXCEPT !.pc = "save", !.attempts = @ + 1, !.df = NoDf],
          gui |-> [g EXCEPT !.status_label = "Dang luu bao cao..."],
          files |-> fs]
    ELSE ExceptV1([th EXCEPT !.attempts = @ + 1], g, fs, "ProfileReport")

\* gui.py 367-378: profile.to_file(output_path), then the success dialog
SaveV1(th, g, fs, env) ==
    IF env.io = "ok"
    THEN [th |-> [th EXCEPT !.pc = "ask", !.wrote = @ \cup {"html"}],
          gui |-> [g EXCEPT !.status_label = "Hoan thanh!"],
          files |-> fs \cup {[path |-> th.output_path, kind |-> "html"]}]
    ELSE ExceptV1(th, g, fs, "to_file")

\* a finally block that leaves the progress bar running
FinallyV1_nostop(th, g, fs) ==
    [th |-> [DropLocals(th) EXCEPT
                !.pc = "done",
                !.outcome = IF th.pc = "ask" THEN "success" ELSE "error"],
     gui |-> g,
     files |-> fs]

\* finally: self.progress_bar.stop() (gui.py 392-393), after either dialog
FinallyV1(th, g, fs) ==
    [th |-> [DropLocals(th) EXCEPT
                !.pc = "done",
                !.outcome = IF th.pc = "ask" THEN "success" ELSE "error"],
     gui |-> [g EXCEPT !.progress_running = FALSE],
     files |-> fs]

\* YDataProfilingGUI.generate_report_thread
StepV1(th, g, fs, s, inp, outp, lib, env) ==
    CASE th.pc = "validate" -> ValidateV1(th, g, fs, inp, outp, lib)
      [] th.pc = "load" -> LoadV1(th, g, fs, s, env)
      [] th.pc = "profile" -> ProfileV1(th, g, fs, s, env)
      [] th.pc = "fallback" -> FallbackV1(th, g, fs, env)
      [] th.pc = "save" -> SaveV1(th, g, fs, env)
      [] th.pc \in {"ask", "errdialog"} -> FinallyV1(th, g, fs)

\* DataProfilerGUI.update_progress
update_progress(g, value, message) ==
    [g EXCEPT !.progress_var = value, !.current_step = message,
              !.main_status_label = message]

\* DataProfilerGUI.reset_progress
reset_progress(g) ==
    [g EXCEPT !.progress_var = 0, !.current_step = "Ready",
              !.main_status_label = "Ready to analyze data"]

\* except Exception as e (gui_v2.py 1164-1168): log, update_progress, showerror
ExceptV2(th, g, fs, err, detail) ==
    [th |-> [DropLocals(th) EXCEPT !.pc = "errdialog", !.outcome = "error",
                                   !.error = err, !.error_detail = detail],
     gui |-> update_progress(g, 0, "Error occurred"),
     files |-> fs]

\* the nrows argument of the load_data call (gui_v2.py 1075-1080); 0 is None
sample_nrows(s) == IF s.sample_size > 0 THEN s.sample_size ELSE 0

\* gui_v2.py 1057-1079: the checks, then the row limit of the load
ValidateV2(th, g, fs, s, inp, outp, lib) ==
    LET g0 == update_progress(g, 0, "Initializing...")
    IN  IF ~lib THEN ExceptV2(th, g0, fs, "library not available", 0)
        ELSE IF inp = NoPath \/ outp = NoPath THEN ExceptV2(th, g0, fs, "no input or output", 0)
        ELSE IF inp \notin ExistingFiles THEN ExceptV2(th, g0, fs, "input does not exist", 0)
        ELSE [th |-> [th EXCEPT !.pc = "load", !.input_path = inp, !.output_path = outp,
                                !.nrows = sample_nrows(s)],
              gui |-> update_progress(g0, 10, "Loading data..."),
              files |-> fs]

\* signal.signal(signal.SIGALRM, ...) (gui_v2.py 1103-1105) raises ValueError
\* outside the main thread; it is reached only where SIGALRM exists
SignalRaises(th, sigalrm) == sigalrm /\ th.runner = "thread"

\* gui_v2.py 1075-1082: load_data returns or raises
LoadV2(th, g, fs, s, env) ==
    LET r == load_data_v2(s, th.input_path, th.nrows, env)
    IN  IF ~r.ok THEN ExceptV2(th, g, fs, "load_data", 0)
        ELSE [th |-> [th EXCEPT !.pc = "configure", !.input_path = NoPath, !.df = r.df],
              gui |-> update_progress(g, 30, "Configuring analysis..."),
              files |-> fs]

\* gui_v2.py 1084-1105 and 1114-1121: the configuration, and the alarm that
\* cannot be set in a thread
ConfigureV2(th, g, fs, s, sigalrm) ==
    IF SignalRaises(th, sigalrm)
    THEN [th |-> [th EXCEPT !.pc = "fallback",
                            !.config = create_profile_config_v2(s),
                            !.profile_config = minimal_config(s)],
          gui |-> update_progress(g, 40, "Generating profile..."),
          files |-> fs]
    ELSE [th |-> [th EXCEPT !.pc = "profile",
                            !.config = create_profile_config_v2(s),
                            !.profile_config = create_profile_config_v2(s)],
          gui |-> update_progress(g, 40, "Generating profile..."),
          files |-> fs]

\* a first ProfileReport call that the alarm interrupts when the timeout is short
ProfileV2_enforced(th, g, fs, s, env) ==
    CASE env.call = "timeout" \/ s.timeout_var < 600 ->
            ExceptV2([th EXCEPT !.attempts = @ + 1], g, fs, "timed out", s.timeout_var)
      [] env.call = "ok" ->
            [th |-> [th EXCEPT !.pc = "save", !.attempts = @ + 1, !.df = NoDf],
             gui |-> update_progress(g, 80, "Saving report..."),
             files |-> fs]
      [] OTHER ->
            [th |-> [th EXCEPT !.pc = "fallback", !.attempts = @ + 1,
                               !.profile_config = minimal_config(s)],
             gui |-> g,
             files |-> fs]

\* gui_v2.py 1107-1124: the first ProfileReport call
ProfileV2(th, g, fs, s, env) ==
    CASE env.call = "ok" ->
            [th |-> [th EXCEPT !.pc = "save", !.attempts = @ + 1, !.df = NoDf],
             gui |-> update_progress(g, 80, "Saving report..."),
             files |-> fs]
      [] env.call = "timeout" ->
            ExceptV2([th EXCEPT !.attempts = @ + 1], g, fs, "timed out", s.timeout_var)
      [] OTHER ->
            [th |-> [th EXCEPT !.pc = "fallback", !.attempts = @ + 1,
                               !.profile_config = minimal_config(s)],
             gui |-> g,
             files |-> fs]

\* gui_v2.py 1122-1124: the retry with minimal_config
FallbackV2(th, g, fs, env) ==
    IF env.call = "ok"
    THEN [th |-> [th EXCEPT !.pc = "save", !.attempts = @ + 1, !.df = NoDf],
          gui |-> update_progress(g, 80, "Saving report..."),
          files |-> fs]
    ELSE ExceptV2([th EXCEPT !.attempts = @ + 1], g, fs, "ProfileReport", 0)

\* a save step that writes the HTML report whatever the output format
SaveV2_html_always(th, g, fs, s, env) ==
    IF env.io = "ok"
    THEN [th |-> [th EXCEPT !.pc = "finalize", !.wrote = @ \cup {"html"}],
          gui |-> update_progress(g, 90, "Finalizing..."),
          files |-> fs \cup {[path |-> th.output_path, kind |-> "html"]}]
    ELSE ExceptV2(th, g, fs, "save", 0)

\* gui_v2.py 1126-1135: the report, as HTML or as JSON
SaveV2(th, g, fs, s, env) ==
    LET kind == IF s.output_format = "html" THEN "html" ELSE "json"
    IN  IF env.io = "ok"
        THEN [th |-> [th EXCEPT !.pc = "finalize", !.wrote = @ \cup {kind}],
              gui |-> update_progress(g, 90, "Finalizing..."),
              files |-> fs \cup {[path |-> th.output_path, kind |-> kind]}]
        ELSE ExceptV2(th, g, fs, "save", 0)

\* gui_v2.py 1137-1161: the configuration file, the zip file, the success dialog
FinalizeV2(th, g, fs, s, env) ==
    LET cfg == s.include_config
        zip == s.compress_output
        fs1 == IF cfg /\ env.io # "config_error"
               THEN fs \cup {[path |-> th.output_path, kind |-> "config"]} ELSE fs
        th1 == IF cfg /\ env.io # "config_error"
               THEN [th EXCEPT !.wrote = @ \cup {"config"}] ELSE th
    IN  IF cfg /\ env.io = "config_error" THEN ExceptV2(th, g, fs, "config file", 0)
        ELSE IF zip /\ env.io = "zip_error" THEN ExceptV2(th1, g, fs1, "zip file", 0)
        ELSE [th |-> [th1 EXCEPT !.pc = "ask", !.config = NoConfig,
                                 !.wrote = IF zip THEN @ \cup {"zip"} ELSE @],
              gui |-> update_progress(g, 100, "Complete!"),
              files |-> IF zip THEN fs1 \cup {[path |-> th.output_path, kind |-> "zip"]}
                        ELSE fs1]

\* a finally block that does not reset the progress
FinallyV2_noreset(th, g, fs) ==
    [th |-> [DropLocals(th) EXCEPT
                !.pc = "done",
                !.outcome = IF th.pc = "ask" THEN "success" ELSE "error"],
     gui |-> g,
     files |-> fs]

\* finally: self.reset_progress() (gui_v2.py 1170-1171), after either dialog
FinallyV2(th, g, fs) ==
    [th |-> [DropLocals(th) EXCEPT
                !.pc = "done",
                !.outcome = IF th.pc = "ask" THEN "success" ELSE "error"],
     gui |-> reset_progress(g),
     files |-> fs]

\* DataProfilerGUI.generate_report_thread
StepV2(th, g, fs, s, inp, outp, lib, sigalrm, env) ==
    CASE th.pc = "validate" -> ValidateV2(th, g, fs, s, inp, outp, lib)
      [] th.pc = "load" -> LoadV2(th, g, fs, s, env)
      [] th.pc = "configure" -> ConfigureV2(th, g, fs, s, sigalrm)
      [] th.pc = "profile" -> ProfileV2(th, g, fs, s, env)
      [] th.pc = "fallback" -> FallbackV2(th, g, fs, env)
      [] th.pc = "save" -> SaveV2(th, g, fs, s, env)
      [] th.pc = "finalize" -> FinalizeV2(th, g, fs, s, env)
      [] th.pc \in {"ask", "errdialog"} -> FinallyV2(th, g, fs)

(***************************************************************************)
(* The steps of the generation threads.                                    *)
(***************************************************************************)
ThreadStep(t, env) ==
    LET r == IF version = 1
             THEN StepV1(threads[t], gui, files, settings, input_file, output_file,
                         YDATA_AVAILABLE, env)
             ELSE StepV2(threads[t], gui, files, settings, input_file, output_file,
                         YDATA_AVAILABLE, has_sigalrm, env)
    IN  /\ threads' = [threads EXCEPT ![t] = r.th]
        /\ gui' = r.gui
        /\ files' = r.files
        /\ UNCHANGED <<version, YDATA_AVAILABLE, has_sigalrm, cancelled, settings, widgets_bound,
                       input_file, output_file, settings_file, saved_from, events, edits>>

At(t, pc) == threads[t].pc = pc

Validate(t) == At(t, "validate") /\ \E env \in EnvsAt("validate") : ThreadStep(t, env)
Load(t) == At(t, "load") /\ \E env \in EnvsAt("load") : ThreadStep(t, env)
Configure(t) == At(t, "configure") /\ \E env \in EnvsAt("configure") : ThreadStep(t, env)
Profile(t) == At(t, "profile") /\ \E env \in EnvsAt("profile") : ThreadStep(t, env)
Fallback(t) == At(t, "fallback") /\ \E env \in EnvsAt("fallback") : ThreadStep(t, env)
Save(t) == At(t, "save") /\ \E env \in EnvsAt("save") : ThreadStep(t, env)
Finalize(t) == At(t, "finalize") /\ \E env \in EnvsAt("finalize") : ThreadStep(t, env)
DismissSuccess(t) == At(t, "ask") /\ \E env \in EnvsAt("ask") : ThreadStep(t, env)
DismissError(t) == At(t, "errdialog") /\ \E env \in EnvsAt("errdialog") : ThreadStep(t, env)

\* the thread's target has returned: the thread is gone
ThreadExit(t) ==
    /\ At(t, "done")
    /\ threads' = [threads EXCEPT ![t] = IdleThread]
    /\ cancelled' = cancelled \ {t}
    /\ UNCHANGED <<version, YDATA_AVAILABLE, has_sigalrm, settings, widgets_bound,
                   input_file, output_file, gui, files, settings_file, saved_from, events, edits>>

(***************************************************************************)
(* generate_report and cancel_operation.                                   *)
(***************************************************************************)
IdleSlots == {t \in ThreadIds : threads[t].pc = "idle"}
FreeSlot == CHOOSE t \in IdleSlots : \A u \in IdleSlots : t <= u

\* the checks of generate_report before it starts a thread
generate_report_refuses_busy(v, lib, inp, outp, ths) ==
    \/ ~lib
    \/ v = 2 /\ (inp = NoPath \/ outp = NoPath)
    \/ \E t \in ThreadIds : Active(ths[t])
\* checks that look at the library only
generate_report_refuses_lib_only(v, lib, inp, outp, ths) == ~lib

generate_report_refuses(v, lib, inp, outp, ths) ==
    \/ ~lib
    \/ v = 2 /\ (inp = NoPath \/ outp = NoPath)

\* YDataProfilingGUI.generate_report / DataProfilerGUI.generate_report
generate_report ==
    /\ UserEvent
    /\ events' = events + 1
    /\ UNCHANGED edits
    /\ IF generate_report_refuses(version, YDATA_AVAILABLE, input_file, output_file, threads)
       THEN UNCHANGED <<gui, threads>>
       ELSE /\ IdleSlots # {}
            /\ threads' = [threads EXCEPT ![FreeSlot] = StartThread]
            /\ gui' = IF version = 1
                      THEN [gui EXCEPT !.progress_running = TRUE,
                                       !.status_label = "Dang xu ly..."]
                      ELSE gui
    /\ UNCHANGED <<version, YDATA_AVAILABLE, has_sigalrm, cancelled, settings, widgets_bound,
                   input_file, output_file, files, settings_file, saved_from>>

\* DataProfilerGUI.cancel_operation: reset_progress and a log line.  cancelled
\* is history only: the program keeps no record of the cancel and no step
\* reads this variable
cancel_operation ==
    /\ version = 2
    /\ UserEvent
    /\ events' = events + 1
    /\ UNCHANGED edits
    /\ gui' = reset_progress(gui)
    /\ cancelled' = cancelled \cup {t \in ThreadIds : Active(threads[t])}
    /\ UNCHANGED <<version, YDATA_AVAILABLE, has_sigalrm, settings, widgets_bound,
                   input_file, output_file, threads, files, settings_file, saved_from>>

(***************************************************************************)
(* The file choices.                                                       *)
(***************************************************************************)
\* the output name generated from the input name (gui.py 218-221,
\* DataProfilerGUI.auto_generate_output_path; the timestamp is left out)
auto_output(v, s, filename) ==
    IF v = 1 THEN stem(filename) \o <<"_report", ".html">>
    ELSE IF s.output_format = "html" THEN stem(filename) \o <<"_report", ".html">>
    ELSE stem(filename) \o <<"_profile", ".json">>

\* browse_input_file, with a file chosen in the dialog
browse_input_file(filename) ==
    /\ UserEvent
    /\ events' = events + 1
    /\ UNCHANGED edits
    /\ input_file' = filename
    /\ output_file' = auto_output(version, settings, filename)
    /\ UNCHANGED <<version, YDATA_AVAILABLE, has_sigalrm, cancelled, settings, widgets_bound,
                   gui, threads, files, settings_file, saved_from>>

\* browse_output_file, with a file chosen in the dialog
browse_output_file ==
    /\ UserEvent
    /\ events' = events + 1
    /\ UNCHANGED edits
    /\ output_file' = ChosenOutput
    /\ UNCHANGED <<version, YDATA_AVAILABLE, has_sigalrm, cancelled, settings, widgets_bound,
                   input_file, gui, threads, files, settings_file, saved_from>>

\* the user types into the entry bound to input_file (textvariable=self.input_file)
edit_input_entry(text) ==
    /\ UserEvent
    /\ widgets_bound
    /\ text # input_file
    /\ events' = events + 1
    /\ UNCHANGED edits
    /\ input_file' = text
    /\ UNCHANGED <<version, YDATA_AVAILABLE, has_sigalrm, cancelled, settings, widgets_bound,
                   output_file, gui, threads, files, settings_file, saved_from>>

\* the user clears the entry bound to output_file
edit_output_entry ==
    /\ UserEvent
    /\ widgets_bound
    /\ output_file # NoPath
    /\ events' = events + 1
    /\ UNCHANGED edits
    /\ output_file' = NoPath
    /\ UNCHANGED <<version, YDATA_AVAILABLE, has_sigalrm, cancelled, settings, widgets_bound,
                   input_file, gui, threads, files, settings_file, saved_from>>

(***************************************************************************)
(* The settings widgets.                                                   *)
(***************************************************************************)
SettingsOnly ==
    UNCHANGED <<version, YDATA_AVAILABLE, has_sigalrm, cancelled, widgets_bound, input_file,
                output_file, gui, threads, files, settings_file, saved_from>>

\* a handler that leaves the other radio variable as it is
on_minimal_selected_keep(s) == s

\* YDataProfilingGUI.on_minimal_selected
on_minimal_selected(s) ==
    IF s.minimal_var THEN [s EXCEPT !.explorative_var = FALSE] ELSE s

\* YDataProfilingGUI.on_explorative_selected
on_explorative_selected(s) ==
    IF s.explorative_var THEN [s EXCEPT !.minimal_var = FALSE] ELSE s

\* DataProfilerGUI.on_type_changed
on_type_changed(s) ==
    IF s.minimal_var
    THEN [s EXCEPT !.explorative_var = FALSE, !.interactions_var = FALSE]
    ELSE [s EXCEPT !.minimal_var = FALSE]

\* a radio button sets its variable to its value (True) when the widget is
\* still bound to the variable the program reads
RadioSet(s, var) == IF widgets_bound THEN [s EXCEPT ![var] = TRUE] ELSE s

\* the "Minimal" / "Quick" radio button: variable=self.minimal_var, value=True,
\* command=the handler; the handler runs on every click
select_minimal ==
    /\ SettingEdit
    /\ events' = events + 1
    /\ edits' = edits + 1
    /\ settings' = IF version = 1
                   THEN on_minimal_selected(RadioSet(settings, "minimal_var"))
                   ELSE on_type_changed(RadioSet(settings, "minimal_var"))
    /\ SettingsOnly

\* the "Explorative" / "Comprehensive" radio button: variable=self.explorative_var,
\* value=True, command=the handler; the handler runs on every click
select_explorative ==
    /\ SettingEdit
    /\ events' = events + 1
    /\ edits' = edits + 1
    /\ settings' = IF version = 1
                   THEN on_explorative_selected(RadioSet(settings, "explorative_var"))
                   ELSE on_type_changed(RadioSet(settings, "explorative_var"))
    /\ SettingsOnly

CheckButtons == IF version = 1 THEN V1CheckButtons ELSE V2CheckButtons

\* a Checkbutton(variable=var) is clicked
toggle_checkbutton(var) ==
    /\ SettingEdit
    /\ widgets_bound
    /\ var \in CheckButtons
    /\ events' = events + 1
    /\ edits' = edits + 1
    /\ settings' = [settings EXCEPT ![var] = ~@]
    /\ SettingsOnly

\* the values the entries, comboboxes, radio buttons and spinboxes bound with
\* textvariable= / variable= can give their variable
WidgetValues(var) ==
    CASE var = "title_var" -> Titles
      [] var = "dataset_description" -> Descriptions
      [] var = "theme_var" -> Themes
      [] var = "color_scheme" -> ColorSchemes
      [] var = "output_format" -> OutputFormats
      [] var = "handle_missing" -> HandleMissing
      [] var = "sample_size" -> SampleSizes
      [] var = "timeout_var" -> Timeouts
      [] var = "memory_limit" -> MemoryLimits
ValueWidgets ==
    IF version = 1 THEN {"title_var"}
    ELSE {"title_var", "dataset_description", "theme_var", "color_scheme",
          "output_format", "handle_missing", "sample_size", "timeout_var", "memory_limit"}

\* the user changes the value of such a widget
edit_widget(var, value) ==
    /\ SettingEdit
    /\ widgets_bound
    /\ var \in ValueWidgets
    /\ value \in WidgetValues(var)
    /\ value # settings[var]
    /\ events' = events + 1
    /\ edits' = edits + 1
    /\ settings' = [settings EXCEPT ![var] = value]
    /\ SettingsOnly

(***************************************************************************)
(* Saving and loading the settings.                                        *)
(***************************************************************************)
\* what the save button writes
saved_dict(v, s) == IF v = 1 THEN save_settings_dict(s) ELSE save_configuration_dict(s)
\* what the load button makes of a file
loaded_settings(v, d) == IF v = 1 THEN apply_settings_v1(d) ELSE apply_configuration(d)

\* save_settings (v1) / save_configuration (v2), with a file name chosen and
\* the file written
save_settings ==
    /\ UserEvent
    /\ events' = events + 1
    /\ UNCHANGED edits
    /\ settings_file' = saved_dict(version, settings)
    /\ saved_from' = settings
    /\ UNCHANGED <<version, YDATA_AVAILABLE, has_sigalrm, cancelled, settings, widgets_bound,
                   input_file, output_file, gui, threads, files>>

\* load_settings (v1) / load_configuration (v2), with the saved file chosen
load_settings ==
    /\ UserEvent
    /\ settings_file # NoFile
    /\ events' = events + 1
    /\ UNCHANGED edits
    /\ settings' = loaded_settings(version, settings_file)
    /\ UNCHANGED <<version, YDATA_AVAILABLE, has_sigalrm, cancelled, widgets_bound, input_file,
                   output_file, gui, threads, files, settings_file, saved_from>>

\* DataProfilerGUI.reset_to_defaults, answered yes: initialize_variables makes
\* new tk variables, which no widget is bound to
reset_to_defaults ==
    /\ version = 2
    /\ UserEvent
    /\ events' = events + 1
    /\ UNCHANGED edits
    /\ settings' = V2Defaults
    /\ input_file' = NoPath
    /\ output_file' = NoPath
    /\ gui' = [gui EXCEPT !.progress_var = 0, !.current_step = "Ready"]
    /\ widgets_bound' = FALSE
    /\ UNCHANGED <<version, YDATA_AVAILABLE, has_sigalrm, cancelled, threads, files,
                   settings_file, saved_from>>

(***************************************************************************)
(* The specification.                                                      *)
(***************************************************************************)
ThreadNext ==
    \E t \in ThreadIds :
        \/ Validate(t)
        \/ Load(t)
        \/ Configure(t)
        \/ Profile(t)
        \/ Fallback(t)
        \/ Save(t)
        \/ Finalize(t)
        \/ DismissSuccess(t)
        \/ DismissError(t)
        \/ ThreadExit(t)

UserNext ==
    \/ generate_report
    \/ cancel_operation
    \/ \E filename \in BrowsePaths : browse_input_file(filename)
    \/ browse_output_file
    \/ \E text \in TypedPaths : edit_input_entry(text)
    \/ edit_output_entry
    \/ select_minimal
    \/ select_explorative
    \/ \E var \in V1CheckButtons \cup V2CheckButtons : toggle_checkbutton(var)
    \/ \E var \in ValueWidgets : \E value \in WidgetValues(var) : edit_widget(var, value)
    \/ save_settings
    \/ load_settings
    \/ reset_to_defaults

Next == ThreadNext \/ UserNext

Spec == Init /\ [][Next]_vars

(***************************************************************************)
(* The specification with the scheduling the threads get: a generation     *)
(* thread that can take its next step (the library call it is in returns   *)
(* or raises, the dialog it shows is dismissed) eventually takes it.       *)
(***************************************************************************)
\* the next step of generation thread t
Run(t) == Active(threads[t]) /\ \E env \in EnvsAt(threads[t].pc) : ThreadStep(t, env)

FairSpec == Spec /\ \A t \in ThreadIds : WF_vars(Run(t))

(***************************************************************************)
(* Properties.                                                             *)
(***************************************************************************)

\* C1: failure recovery is a single fallback.  A thread in the first
\* ProfileReport call leaves it for the save (the call returned), for the retry
\* (it raised; the retry's configuration is {title, minimal: True} and nothing
\* else) or, in v2 only, for the error outcome when it raised TimeoutError.  A
\* thread in the retry leaves it for the save or for the error outcome, with no
\* file written by it; it never goes back to a ProfileReport call.  Every call
\* counts as one attempt and no thread makes more than two.
C1_SingleFallback ==
    /\ [](\A t \in ThreadIds :
            /\ threads[t].attempts <= 2
            /\ threads[t].pc = "fallback" =>
                    /\ DOMAIN threads[t].profile_config = {"title", "minimal"}
                    /\ threads[t].profile_config["minimal"] = JBool(TRUE)
            /\ threads[t].error = "ProfileReport" =>
                    /\ threads[t].outcome = "error"
                    /\ threads[t].attempts \in {1, 2}
                    /\ threads[t].wrote = {})
    /\ [][\A t \in ThreadIds :
            LET th == threads[t]
                th1 == threads'[t]
            IN  /\ (th.pc = "profile" /\ th1 # th) =>
                    /\ th1.pc \in {"save", "fallback", "errdialog"}
                    /\ th1.attempts = th.attempts + 1
                    /\ th1.pc = "fallback" => th1.profile_config = minimal_config(settings)
                    /\ th1.pc = "errdialog" => (version = 2 /\ th1.error = "timed out")
                /\ (th.pc = "fallback" /\ th1 # th) =>
                    /\ th1.pc \in {"save", "errdialog"}
                    /\ th1.attempts = th.attempts + 1
                    /\ th1.pc = "errdialog" =>
                            /\ th1.outcome = "error"
                            /\ th1.wrote = {}
                            /\ files' = files]_vars

\* both ProfileReport calls of a v2 request raised
C1_Witness ==
    \E t \in ThreadIds :
        /\ version = 2
        /\ threads[t].pc = "errdialog"
        /\ threads[t].error = "ProfileReport"
        /\ threads[t].attempts = 2
        /\ threads[t].wrote = {}

\* C2: in v2 the memory limit is applied to nothing.  In every state, with the
\* memory limit replaced by any other value, create_profile_config, the retry's
\* configuration, load_data on every file the dialog offers, the generated output name, and every
\* step of every generation thread (loading, profiling, saving, the
\* configuration file and the compression) give identical results, and
\* on_type_changed carries the limit through unread; save_configuration writes
\* the limit to the file.  The limit changes only in a step of
\* load_configuration (apply_configuration), of reset_to_defaults
\* (initialize_variables) or when the user changes the spinbox bound to it.
C2_MemoryLimitUnused ==
    /\ [](version = 2 =>
            \A m \in MemoryLimits :
                LET s2 == [settings EXCEPT !.memory_limit = m]
                IN  /\ create_profile_config_v2(s2) = create_profile_config_v2(settings)
                    /\ minimal_config(s2) = minimal_config(settings)
                    /\ \A f \in BrowsePaths : \A n \in {0} \cup SampleSizes : \A e \in ReadEnvs :
                            load_data_v2(s2, f, n, e) = load_data_v2(settings, f, n, e)
                    /\ \A f \in BrowsePaths : auto_output(2, s2, f) = auto_output(2, settings, f)
                    /\ on_type_changed(s2) = [on_type_changed(settings) EXCEPT !.memory_limit = m]
                    /\ save_configuration_dict(s2)["memory_limit"] = JInt(m)
                    /\ \A t \in ThreadIds : \A env \in EnvsAt(threads[t].pc) :
                            Active(threads[t]) =>
                                StepV2(threads[t], gui, files, s2, input_file, output_file,
                                       YDATA_AVAILABLE, has_sigalrm, env)
                                = StepV2(threads[t], gui, files, settings, input_file,
                                         output_file, YDATA_AVAILABLE, has_sigalrm, env))
    /\ [][(version = 2 /\ settings'.memory_limit # settings.memory_limit) =>
                \/ load_settings
                \/ reset_to_defaults
                \/ edit_widget("memory_limit", settings'.memory_limit)]_vars

\* a v2 generation is writing its configuration file while the memory limit
\* is not the default
C2_Witness ==
    /\ version = 2
    /\ settings.memory_limit # V2Defaults.memory_limit
    /\ \E t \in ThreadIds : threads[t].pc = "finalize"

\* C3: every request generate_report accepts starts exactly one thread running
\* generate_report_thread and returns before that thread has run: the step
\* fills one free slot with a thread at its start, run by a thread of its own,
\* and leaves the main loop free; no other step starts a thread.  While a
\* generation is loading data or building the profile, the main loop is free,
\* so a button press (the browse button) and a setting change (a check button
\* that is still bound to its variable) can be handled.
C3_OneThreadPerRequest ==
    /\ [](\A t \in ThreadIds :
            threads[t].pc \in {"load", "profile", "fallback"} =>
                /\ threads[t].runner = "thread"
                /\ UIIdle
                /\ events < MaxEvents => ENABLED browse_output_file
                /\ (events < MaxEvents /\ edits < MaxEdits /\ widgets_bound) =>
                        ENABLED toggle_checkbutton("correlations_var"))
    /\ [][/\ (generate_report /\ ~generate_report_refuses(version, YDATA_AVAILABLE,
                                                           input_file, output_file, threads)) =>
                \E t \in ThreadIds :
                    /\ threads[t].pc = "idle"
                    /\ threads'[t].pc = "validate"
                    /\ threads'[t].runner = "thread"
                    /\ \A u \in ThreadIds \ {t} : threads'[u] = threads[u]
                    /\ UIIdle'
          /\ (\E t \in ThreadIds : threads[t].pc = "idle" /\ threads'[t].pc # "idle") =>
                generate_report]_vars

\* a generation is in the first ProfileReport call and the main loop can
\* still handle an event
C3_Witness ==
    \E t \in ThreadIds :
        /\ threads[t].pc = "profile"
        /\ threads[t].runner = "thread"
        /\ UserEvent

\* C4: report requests are not coordinated.  Whether generate_report refuses a
\* request does not depend on the generation threads there are (not rejected);
\* a request accepted while another generation is active starts its thread in
\* that very step and leaves the other threads as they are (not queued); and
\* every active generation thread can take its next step whatever the other
\* threads are doing (not serialized).
C4_NoCoordination ==
    /\ [](/\ generate_report_refuses(version, YDATA_AVAILABLE, input_file, output_file,
                                      threads)
              = generate_report_refuses(version, YDATA_AVAILABLE, input_file, output_file,
                                        [t \in ThreadIds |-> IdleThread])
           /\ \A t \in ThreadIds :
                Active(threads[t]) =>
                    ENABLED (\E env \in EnvsAt(threads[t].pc) : ThreadStep(t, env)))
    /\ [][(/\ generate_report
            /\ \E u \in ThreadIds : Active(threads[u])
            /\ ~(~YDATA_AVAILABLE \/ (version = 2 /\ (input_file = NoPath \/ output_file = NoPath)))) =>
                \E t \in ThreadIds :
                    /\ ~Active(threads[t])
                    /\ threads'[t].pc = "validate"
                    /\ \A u \in ThreadIds \ {t} : threads'[u] = threads[u]]_vars

\* two generations at once, both about to write the report to the same path
C4_Witness ==
    \E t \in ThreadIds : \E u \in ThreadIds \ {t} :
        /\ threads[t].pc = "save"
        /\ threads[u].pc = "save"
        /\ threads[t].output_path # NoPath
        /\ threads[t].output_path = threads[u].output_path

LoadedFrame(th, s, env) ==
    LET v == ValidateV2(th, gui, files, s, input_file, output_file, YDATA_AVAILABLE)
    IN  IF v.th.pc # "load" THEN NoDf
        ELSE LoadV2(v.th, v.gui, v.files, s, env).th.df

\* C6 as the claim states it: in v2 the configuration has a sample entry
\* exactly when sample_size > 0, and the data a generation loads and cleans is
\* the same whatever sample_size is.
C6_SamplingPassThrough ==
    version = 2 =>
        \A n \in SampleSizes :
            LET s2 == [settings EXCEPT !.sample_size = n]
                c == create_profile_config_v2(settings)
                c2 == create_profile_config_v2(s2)
                SampleEntryOnly ==
                    /\ ("sample" \in DOMAIN c2) = (n > 0)
                    /\ "sample" \in DOMAIN c2 => c2["sample"] = JObj([n |-> n])
                    /\ DOMAIN c2 \ {"sample"} = DOMAIN c \ {"sample"}
                    /\ \A k \in DOMAIN c2 \ {"sample"} : c2[k] = c[k]
            IN  /\ SampleEntryOnly
                /\ \A t \in ThreadIds : \A env \in EnvsAt("load") :
                        threads[t].pc = "validate" =>
                            LoadedFrame(threads[t], s2, env) = LoadedFrame(threads[t], settings, env)

\* C6, amended: in v2 the configuration has a sample entry exactly when
\* sample_size > 0 and nothing else in it depends on sample_size; the data a
\* generation loads does depend on it: with sample_size = 0 it is the whole
\* file, cleaned when auto_clean is set, and with sample_size > 0 it is the
\* first sample_size rows of the file (all of them when there are fewer), read
\* with the same reader and encoding, and never cleaned.
C6_SamplingAlsoLimitsRows ==
    version = 2 =>
        \A n \in SampleSizes :
            LET s2 == [settings EXCEPT !.sample_size = n]
                c == create_profile_config_v2(settings)
                c2 == create_profile_config_v2(s2)
                SampleEntryOnly ==
                    /\ ("sample" \in DOMAIN c2) = (n > 0)
                    /\ "sample" \in DOMAIN c2 => c2["sample"] = JObj([n |-> n])
                    /\ DOMAIN c2 \ {"sample"} = DOMAIN c \ {"sample"}
                    /\ \A k \in DOMAIN c2 \ {"sample"} : c2[k] = c[k]
            IN  /\ SampleEntryOnly
                /\ \A t \in ThreadIds : \A env \in EnvsAt("load") :
                        threads[t].pc = "validate" =>
                            LET got == LoadedFrame(threads[t], s2, env)
                                full == LoadedFrame(threads[t], [s2 EXCEPT !.sample_size = 0], env)
                            IN  /\ full # NoDf =>
                                    /\ full.rows = FileRows
                                    /\ full.dedup = (s2.auto_clean /\ s2.duplicates_var)
                                    /\ full.dropna_cols = (s2.auto_clean /\ s2.handle_missing = "skip")
                                    /\ full.interpolated =
                                            (s2.auto_clean /\ s2.handle_missing = "interpolate")
                                /\ n = 0 => got = full
                                /\ n > 0 =>
                                    got = IF full = NoDf THEN NoDf
                                          ELSE [NoDf EXCEPT !.reader = full.reader,
                                                            !.encoding = full.encoding,
                                                            !.rows = Min(n, FileRows)]

\* a v2 generation with sample_size = 2 has loaded two of the rows of the
\* file, and its configuration has the sample entry
C6_Witness ==
    /\ version = 2
    /\ \E t \in ThreadIds :
        /\ threads[t].pc \in {"profile", "fallback"}
        /\ threads[t].nrows > 0
        /\ threads[t].df.rows = threads[t].nrows
        /\ threads[t].df.rows < FileRows
        /\ "sample" \in DOMAIN threads[t].config

\* C7: the settings are saved as flat JSON.  In every state the dictionary
\* the save button would write, and the file it has written, has the same keys
\* (10 in v1, 19 in v2) and every value is a string, a boolean or an integer.
C7_FlatSettings ==
    LET V1Keys ==
            {"title", "minimal", "explorative", "dark_mode", "orange_mode", "correlations",
             "missing_diagrams", "duplicates", "interactions", "samples"}
        V2Keys ==
            {"title", "description", "analysis_type", "theme", "color_scheme",
             "output_format", "correlations", "missing_diagrams", "duplicates",
             "interactions", "samples", "sample_size", "timeout", "memory_limit",
             "auto_clean", "handle_missing", "encoding_detect", "include_config",
             "compress_output"}
        keys == IF version = 1 THEN V1Keys ELSE V2Keys
        FlatWithKeys(d) ==
            /\ DOMAIN d = keys
            /\ \A k \in DOMAIN d : d[k].t \in JScalarTypes
    IN  /\ Cardinality(V1Keys) = 10
        /\ Cardinality(V2Keys) = 19
        /\ FlatWithKeys(saved_dict(version, settings))
        /\ settings_file # NoFile => FlatWithKeys(settings_file)

\* a v2 configuration file has been written from settings that are not the
\* defaults
C7_Witness ==
    /\ version = 2
    /\ settings_file # NoFile
    /\ saved_from # V2Defaults
    /\ settings_file = save_configuration_dict(saved_from)

\* C8: the v1 settings round-trip.  saved_from is the settings at the time
\* the settings file was written.  In every state after a save, whatever the
\* settings have been changed to since, what load_settings makes of the file
\* is all ten settings as they were at the save; saving the current settings
\* and loading them back changes none of them; and a step of save_settings or
\* load_settings leaves the input and the output path as they are, and a
\* step of load_settings leaves the settings as they were at the save.
C8_V1RoundTrip ==
    /\ [](version = 1 =>
            /\ DOMAIN settings = DOMAIN V1Defaults
            /\ apply_settings_v1(save_settings_dict(settings)) = settings
            /\ settings_file # NoFile => apply_settings_v1(settings_file) = saved_from)
    /\ [][(version = 1 /\ (save_settings \/ load_settings)) =>
                /\ input_file' = input_file
                /\ output_file' = output_file
                /\ load_settings => settings' = saved_from]_vars

\* the v1 settings were saved, then a settings widget was used, then they were
\* loaded: of three events one was made on a settings widget, and the settings are those
\* of the file again
C8_Witness ==
    /\ version = 1
    /\ events = 3
    /\ edits = 1
    /\ settings_file = save_settings_dict(V1Defaults)
    /\ settings = V1Defaults

\* C9: the v2 configuration round-trips.  In every state after a save,
\* whatever the settings have been changed to since, what load_configuration
\* makes of the file is every setting as it was at the save: the title, the
\* description, minimal and explorative, the theme, the output format, the five
\* analysis flags, sample_size, the timeout, auto_clean, handle_missing,
\* encoding_detect, include_config, compress_output, and also color_scheme
\* and memory_limit; a step of load_configuration leaves the settings so.
C9_V2RoundTrip ==
    /\ [](version = 2 =>
            /\ DOMAIN settings = DOMAIN V2Defaults
            /\ apply_configuration(save_configuration_dict(settings)) = settings
            /\ settings_file # NoFile =>
                    \A k \in DOMAIN V2Defaults :
                        apply_configuration(settings_file)[k] = saved_from[k])
    /\ [][(version = 2 /\ load_settings) => settings' = saved_from]_vars

\* the v2 configuration was saved, then a settings widget was used, then the
\* configuration was loaded: of three events one was made on a settings widget, nothing
\* was reset, and the settings are those of the file again
C9_Witness ==
    /\ version = 2
    /\ events = 3
    /\ edits = 1
    /\ widgets_bound
    /\ settings_file = save_configuration_dict(V2Defaults)
    /\ settings = V2Defaults

\* load_data of the running version
LoadData(f, env) ==
    IF version = 1 THEN load_data_v1(f, env)
    ELSE load_data_v2(settings, f, sample_nrows(settings), env)

\* C10: load_data dispatches on the lower-cased extension only.  When the
\* read itself succeeds, .csv, .xlsx/.xls, .json and .parquet (and .tsv/.txt
\* in v2), in any letter case, each get their reader, and a name with any
\* other extension, or with none, makes load_data raise; what is read, and
\* whether load_data raises, is what the dispatch gives for the lower-cased
\* extension, whatever the rest of the name.  A generation whose
\* load_data raises ends in the error outcome with no ProfileReport call
\* made, no file written by it and the files on disk unchanged.
C10_ExtensionDispatch ==
    LET ExpectedReader(v, f) ==
            CASE f \in {DataCsv, DataCsvUpper, GoneCsv} -> "read_csv"
              [] f \in {DataXlsx, DataXls} -> "read_excel"
              [] f = DataJson -> "read_json"
              [] f = DataParquet -> "read_parquet"
              [] f \in {DataTsvUpper, DataTxt} -> (IF v = 2 THEN "read_tsv" ELSE "none")
              [] OTHER -> "none"
    IN
    /\ \A f \in AllPaths : \A env \in ReadEnvs :
            LET r == LoadData(f, env)
                byext == IF version = 1 THEN DispatchV1(lower(suffix(f)), env)
                         ELSE DispatchV2(settings, lower(suffix(f)), sample_nrows(settings), env)
            IN  /\ ExpectedReader(version, f) = "none" => ~r.ok
                /\ (env.read_ok /\ env.decodable = AllEncodings) =>
                        /\ r.ok = (ExpectedReader(version, f) # "none")
                        /\ r.ok => r.df.reader = ExpectedReader(version, f)
                /\ r.ok = byext.ok
                /\ r.df.reader = byext.df.reader
                /\ r.df.encoding = byext.df.encoding
                /\ r.df.rows = byext.df.rows
    /\ \A t \in ThreadIds :
            /\ threads[t].error = "load_data" =>
                    /\ threads[t].outcome = "error"
                    /\ threads[t].attempts = 0
                    /\ threads[t].wrote = {}
            /\ threads[t].pc = "load" =>
                    \A env \in EnvsAt("load") :
                        LET r == IF version = 1
                                 THEN StepV1(threads[t], gui, files, settings, input_file,
                                             output_file, YDATA_AVAILABLE, env)
                                 ELSE StepV2(threads[t], gui, files, settings, input_file,
                                             output_file, YDATA_AVAILABLE, has_sigalrm, env)
                        IN  ExpectedReader(version, threads[t].input_path) = "none" =>
                                /\ r.th.pc = "errdialog"
                                /\ r.th.outcome = "error"
                                /\ r.th.error = "load_data"
                                /\ r.th.attempts = 0
                                /\ r.th.wrote = {}
                                /\ r.files = files

\* a file with an unsupported extension was chosen and a report requested:
\* the generation ended in load_data's error, nothing written
C10_Witness ==
    /\ input_file = DataXyz
    /\ events = 2
    /\ files = {}
    /\ \E t \in ThreadIds :
        /\ threads[t].pc = "errdialog"
        /\ threads[t].error = "load_data"
        /\ threads[t].attempts = 0

\* C11: a successful generation leaves its report at the chosen output path.
\* A thread passes the checks with the output path the user chose at that
\* time; its save step, when the write succeeds, adds exactly one file, at
\* that path: the HTML report (profile.to_file) in v1 and in v2 with
\* output_format "html", the JSON serialisation (profile.to_json) in v2
\* otherwise.  A thread past its save step, and a thread that ended in
\* success, has written that report; a thread before its save step, and a
\* thread that ended in an error raised before the save step, has written
\* nothing; no step but a save step or a v2 finalize step writes a file.
C11_ReportAtOutputPath ==
    /\ [](\A t \in ThreadIds :
            LET th == threads[t]
                reports == th.wrote \cap {"html", "json"}
            IN  /\ th.pc \in {"finalize", "ask"} =>
                    /\ th.output_path # NoPath
                    /\ \E kind \in {"html", "json"} :
                            /\ reports = {kind}
                            /\ version = 1 => kind = "html"
                            /\ [path |-> th.output_path, kind |-> kind] \in files
                /\ th.outcome = "success" =>
                    /\ Cardinality(reports) = 1
                    /\ version = 1 => th.wrote = {"html"}
                /\ th.pc \in {"validate", "load", "configure", "profile", "fallback", "save"} =>
                    th.wrote = {}
                /\ (th.outcome = "error"
                    /\ th.error \in {"library not available", "no input", "no output",
                                     "no input or output", "input does not exist",
                                     "load_data", "timed out", "ProfileReport"}) =>
                    th.wrote = {})
    /\ [][/\ \A t \in ThreadIds :
                LET th == threads[t]
                    th1 == threads'[t]
                    kind == IF version = 1 \/ settings.output_format = "html"
                            THEN "html" ELSE "json"
                IN  /\ (th.pc = "validate" /\ th1.pc = "load") =>
                        /\ th1.output_path = output_file
                        /\ output_file # NoPath
                    /\ (th.pc = "save" /\ th1 # th) =>
                        \/ /\ th1.pc = "errdialog"
                           /\ th1.wrote = {}
                           /\ files' = files
                        \/ /\ th1.pc = (IF version = 1 THEN "ask" ELSE "finalize")
                           /\ th1.output_path = th.output_path
                           /\ th1.wrote = {kind}
                           /\ files' = files \cup {[path |-> th.output_path, kind |-> kind]}
          /\ files' # files =>
                \E t \in ThreadIds :
                    /\ threads[t].pc \in {"save", "finalize"}
                    /\ threads'[t] # threads[t]]_vars

\* a v2 generation with output_format "json" has written the JSON
\* serialisation to its output path and is showing the success dialog
C11_Witness ==
    /\ version = 2
    /\ settings.output_format = "json"
    /\ \E t \in ThreadIds :
        /\ threads[t].pc = "ask"
        /\ "json" \in threads[t].wrote
        /\ [path |-> threads[t].output_path, kind |-> "json"] \in files

\* C12: the checks of the v1 generation thread and their order.  For a v1
\* thread at its start, whatever the library flag, the input path (empty, a
\* file that is not there, a file that is there) and the output path (empty or
\* not): the first check that fails, in the order library available, input
\* path non-empty, output path non-empty, input file exists, decides the
\* message; the thread then is in the error dialog with that message (the one
\* it logged) and the error outcome, has no data frame, no configuration, no
\* ProfileReport call made and nothing written, the files are as they were
\* and the status label reads "Co loi xay ra".  When no check fails the thread
\* goes on to load_data.  A v1 thread whose error is one of the four has
\* loaded, built and written nothing.
C12_V1ValidationOrder ==
    LET FirstFailure(lib, inp, outp) ==
            CASE ~lib -> "library not available"
              [] lib /\ inp = NoPath -> "no input"
              [] lib /\ inp # NoPath /\ outp = NoPath -> "no output"
              [] lib /\ inp # NoPath /\ outp # NoPath /\ inp = GoneCsv -> "input does not exist"
              [] OTHER -> "none"
        CheckErrors ==
            {"library not available", "no input", "no output", "input does not exist"}
    IN  version = 1 =>
            \A t \in ThreadIds :
                /\ threads[t].error \in CheckErrors =>
                        /\ threads[t].pc \in {"errdialog", "done"}
                        /\ threads[t].outcome = "error"
                        /\ threads[t].df = NoDf
                        /\ threads[t].config = NoConfig
                        /\ threads[t].attempts = 0
                        /\ threads[t].wrote = {}
                /\ threads[t].pc = "validate" =>
                        \A lib \in BOOLEAN : \A inp \in {NoPath, GoneCsv, DataCsv} :
                        \A outp \in {NoPath, ChosenOutput} :
                            LET r == StepV1(threads[t], gui, files, settings, inp, outp, lib,
                                            DefaultEnv)
                                failure == FirstFailure(lib, inp, outp)
                            IN  IF failure = "none"
                                THEN /\ r.th.pc = "load"
                                     /\ r.th.error = "none"
                                     /\ r.th.outcome = "none"
                                ELSE /\ r.th.pc = "errdialog"
                                     /\ r.th.error = failure
                                     /\ r.th.outcome = "error"
                                     /\ r.th.df = NoDf
                                     /\ r.th.config = NoConfig
                                     /\ r.th.profile_config = NoConfig
                                     /\ r.th.attempts = 0
                                     /\ r.th.wrote = {}
                                     /\ r.files = files
                                     /\ r.gui.status_label = "Co loi xay ra"
                                     /\ r.gui.progress_running = gui.progress_running

\* a v1 request made with an input file that is not there and no output path:
\* the thread is in the error dialog about the output path, the earlier check
\* of the two that fail
C12_Witness ==
    /\ version = 1
    /\ input_file = GoneCsv
    /\ output_file = NoPath
    /\ gui.status_label = "Co loi xay ra"
    /\ \E t \in ThreadIds :
        /\ threads[t].pc = "errdialog"
        /\ threads[t].error = "no output"
        /\ threads[t].wrote = {}

\* C13: what generate_report refuses.  A step of generate_report taken when
\* the profiling library is unavailable, or in v2 when the input path or the
\* output path is empty, leaves every thread slot, the number of generation
\* threads, the progress bar, the status texts and the files as they are; a
\* step of generate_report taken otherwise (in v1 even with empty paths)
\* starts one thread.
C13_RefusedRequest ==
    [][generate_report =>
            LET refused ==
                    \/ ~YDATA_AVAILABLE
                    \/ version = 2 /\ input_file = NoPath
                    \/ version = 2 /\ output_file = NoPath
                Running(ths) == {t \in ThreadIds : ths[t].pc \notin {"idle", "done"}}
            IN  IF refused
                THEN /\ threads' = threads
                     /\ Cardinality(Running(threads')) = Cardinality(Running(threads))
                     /\ gui' = gui
                     /\ files' = files
                ELSE /\ Cardinality(Running(threads')) = Cardinality(Running(threads)) + 1
                     /\ version = 1 => gui'.progress_running]_vars

\* a v2 request was made with an input file chosen and the output path
\* cleared: no thread, progress and status as at the start
C13_Witness ==
    /\ version = 2
    /\ YDATA_AVAILABLE
    /\ input_file # NoPath
    /\ output_file = NoPath
    /\ events = MaxEvents
    /\ \A t \in ThreadIds : threads[t] = IdleThread
    /\ gui = GuiV2Init

\* C14: in v1 every generation thread that is started gets to the end of
\* generate_report_thread, on the success path and on every error path, and
\* the step that ends it is the finally block: it stops the progress bar.
C14_V1ProgressBarStopped ==
    /\ \A t \in ThreadIds :
            (version = 1 /\ threads[t].pc = "validate") ~> (threads[t].pc = "done")
    /\ [][version = 1 =>
            \A t \in ThreadIds :
                /\ (threads[t].pc # "done" /\ threads'[t].pc = "done") =>
                        /\ threads[t].pc \in {"ask", "errdialog"}
                        /\ threads'[t].outcome \in {"success", "error"}
                        /\ ~gui'.progress_running
                /\ (Active(threads[t]) /\ ~Active(threads'[t])) => threads'[t].pc = "done"]_vars

\* a v1 generation has ended in the error outcome and the progress bar, which
\* the request started, is stopped
C14_Witness ==
    /\ version = 1
    /\ ~gui.progress_running
    /\ \E t \in ThreadIds :
        /\ threads[t].pc = "done"
        /\ threads[t].outcome = "error"
        /\ threads[t].attempts = 2

\* C15 as the claim states it: in v1 the progress bar is running in every
\* state in which a generation thread is still active.
C15_BarRunsWhileActive ==
    version = 1 =>
        ((\E t \in ThreadIds : Active(threads[t])) => gui.progress_running)

\* the state C15 excludes: a v1 generation is in its first ProfileReport call
\* and the progress bar has been stopped by the finally block of another
\* generation, which has ended
C15_Witness ==
    /\ version = 1
    /\ ~gui.progress_running
    /\ \E t \in ThreadIds : \E u \in ThreadIds \ {t} :
        /\ threads[t].pc = "profile"
        /\ threads[u].pc = "done"

\* the value of the last update_progress call a v2 generation thread has made
\* when it is at a place (gui_v2.py 1058, 1072, 1082, 1093, 1124, 1135, 1148,
\* 1167) or of reset_progress (1171)
ProgressAt(pc) ==
    CASE pc = "load" -> 10
      [] pc = "configure" -> 30
      [] pc \in {"profile", "fallback"} -> 40
      [] pc = "save" -> 80
      [] pc = "finalize" -> 90
      [] pc = "ask" -> 100
      [] OTHER -> 0

\* thread t is the only generation there is
Alone(t) ==
    /\ threads[t].pc # "idle"
    /\ \A u \in ThreadIds \ {t} : ~Active(threads[u])

C17_CancelStopsGeneration ==
    [][version = 2 =>
            \A t \in cancelled :
                threads'[t] # threads[t] =>
                    /\ files' = files
                    /\ threads'[t].wrote = threads[t].wrote
                    /\ gui' = gui \/ gui' = reset_progress(gui)]_vars

\* the state C17 excludes: the only events of a v2 run were the choice of the
\* input file, the request and the cancel; the cancelled generation has since
\* written its configuration file and set the progress to 100
C17_Witness ==
    /\ version = 2
    /\ events = 3
    /\ gui.progress_var = 100
    /\ \E t \in cancelled :
        /\ threads[t].pc = "ask"
        /\ "config" \in threads[t].wrote
        /\ \A u \in ThreadIds \ {t} : threads[u] = IdleThread

\* C18: in v1 exactly one of minimal_var and explorative_var is true.  It is
\* so at the start; selecting either radio button leaves the selected one
\* true and the other false; a settings file written by save_settings holds
\* the two as they were, and loading it gives them back; nothing else
\* changes either of them.
C18_V1ExactlyOneType ==
    /\ [](version = 1 =>
            /\ settings.minimal_var # settings.explorative_var
            /\ V1Defaults.minimal_var = FALSE /\ V1Defaults.explorative_var = TRUE
            /\ LET s1 == on_minimal_selected([settings EXCEPT !.minimal_var = TRUE])
                   s2 == on_explorative_selected([settings EXCEPT !.explorative_var = TRUE])
               IN  /\ s1.minimal_var /\ ~s1.explorative_var
                   /\ s2.explorative_var /\ ~s2.minimal_var
            /\ settings_file # NoFile =>
                    /\ settings_file["minimal"].v # settings_file["explorative"].v
                    /\ apply_settings_v1(settings_file).minimal_var
                            # apply_settings_v1(settings_file).explorative_var)
    /\ [][version = 1 =>
            /\ select_minimal => (settings'.minimal_var /\ ~settings'.explorative_var)
            /\ select_explorative => (settings'.explorative_var /\ ~settings'.minimal_var)
            /\ (\/ settings'.minimal_var # settings.minimal_var
                \/ settings'.explorative_var # settings.explorative_var) =>
                    (select_minimal \/ select_explorative \/ load_settings)]_vars

\* in v1 Minimal was selected, the settings were saved and loaded back:
\* minimal_var is true, explorative_var false, in the file and in the settings
C18_Witness ==
    /\ version = 1
    /\ events = 3
    /\ edits = 1
    /\ settings.minimal_var
    /\ ~settings.explorative_var
    /\ settings_file = save_settings_dict(settings)

\* C19: the report type in the configuration.  In both versions, in every
\* state and for each of the four combinations of minimal_var and
\* explorative_var put in place of the current two, the result of
\* create_profile_config has exactly one of the keys "minimal" and
\* "explorative" ("minimal" exactly when minimal_var is true, whatever
\* explorative_var is), with the value True; it has all five advanced-analysis
\* entries when "minimal" is absent and none of them when it is present.  The
\* configuration a generation thread holds is of that form too.
C19_OneTypeKey ==
    LET config_of(s) ==
            IF version = 1 THEN create_profile_config_v1(s) ELSE create_profile_config_v2(s)
        WellFormed(c) ==
            /\ ("minimal" \in DOMAIN c) # ("explorative" \in DOMAIN c)
            /\ \A k \in DOMAIN c \cap {"minimal", "explorative"} : c[k] = JBool(TRUE)
            /\ "minimal" \notin DOMAIN c => AdvancedKeys \subseteq DOMAIN c
            /\ "minimal" \in DOMAIN c => AdvancedKeys \cap DOMAIN c = {}
            /\ Cardinality(AdvancedKeys) = 5
    IN  /\ \A m \in BOOLEAN : \A e \in BOOLEAN :
                LET c == config_of([settings EXCEPT !.minimal_var = m, !.explorative_var = e])
                IN  /\ WellFormed(c)
                    /\ ("minimal" \in DOMAIN c) = m
        /\ \A t \in ThreadIds :
                threads[t].config # NoConfig => WellFormed(threads[t].config)

\* a v1 generation requested with Minimal selected is in its first
\* ProfileReport call with a configuration that has the key "minimal" and no
\* advanced entry
C19_Witness ==
    /\ version = 1
    /\ settings.minimal_var
    /\ \E t \in ThreadIds :
        /\ threads[t].pc = "profile"
        /\ "minimal" \in DOMAIN threads[t].config
        /\ "explorative" \notin DOMAIN threads[t].config
        /\ AdvancedKeys \cap DOMAIN threads[t].config = {}

\* C20 as the claim states it: in v2, from any reachable state, a click on
\* the Comprehensive radio button leaves minimal_var false and
\* explorative_var true, and a click on the Quick radio button leaves
\* minimal_var true, explorative_var false and interactions_var false.
C20_LastSelectionWins ==
    [][version = 2 =>
            /\ select_explorative =>
                    (~settings'.minimal_var /\ settings'.explorative_var)
            /\ select_minimal =>
                    /\ settings'.minimal_var
                    /\ ~settings'.explorative_var
                    /\ ~settings'.interactions_var]_vars

\* the state C20 excludes: in v2, with the radio buttons still bound to
\* their variables, two clicks on them (Quick, then Comprehensive) have left
\* minimal_var true and explorative_var false
C20_Witness ==
    /\ version = 2
    /\ widgets_bound
    /\ events = 2
    /\ edits = 2
    /\ settings = [V2Defaults EXCEPT !.minimal_var = TRUE, !.explorative_var = FALSE]
    /\ on_type_changed([settings EXCEPT !.explorative_var = TRUE]) = settings

====
